---- MODULE Spec2Model ----
(***************************************************************************)
(* Model of the playback/transition engine of Marcacao Mestre:             *)
(*   src/src/lib/dualDeckEngine.ts (the engine, lines 1-869),              *)
(*   src/src/lib/deck.ts           (one deck, lines 1-197),                *)
(*   src/src/lib/queueManager.ts   (the queue),                            *)
(*   src/src/lib/beatScheduler.ts  (bar / downbeat arithmetic).            *)
(*                                                                         *)
(* Units.  AudioContext.currentTime ("now") and track positions are        *)
(* counted in whole seconds; the clock advances one bar of a 120 BPM, 4/4  *)
(* track (2 s) at a time.  Every track of the modelled library is 4/4 at   *)
(* 120 BPM, which is also the BPM a deck reports with no track loaded, so  *)
(* the tempo slide of a mix is constant.  playbackRate is stored doubled   *)
(* (2 = native speed, 1 = half speed, the rate the tempo lock gives at a   *)
(* target of 60 BPM), volume in thousandths.  With these units every       *)
(* quantity the code computes is a whole number.                           *)
(***************************************************************************)
EXTENDS Integers, Sequences, FiniteSets, TLC

\* ---------------------------------------------------------------- bounds
NumTracks == 2      \* tracks of the library
MaxId     == 3      \* queue items created in one run (QueueManager.idCounter)
MaxNow    == 6      \* the clock stops advancing here (seconds)
MaxCalls  == 3      \* calls of the public API in one run
DeepCalls == 5      \* the same, in the runs with fewer kinds of call
LiveCalls == 4      \* the same, in the runs checked for progress
Duration  == 6      \* length of every track (seconds): 3 bars at 120 BPM
Precision == 6      \* bits of the significand of a floating-point number (53 in the code)
FracBits  == 8      \* a floating-point number is held as a count of 2^-FracBits
MaxBars   == 7      \* bars of the positions given to getNextDownbeat
MaxEvents == 3      \* tempo events of a tempo map
MaxEventTime == 1   \* latest time of a tempo event (seconds)

Tracks  == 1..NumTracks
DeckIds == {"A", "B"}
NoItem  == [id |-> 0, track |-> 0]
NULL    == -1       \* pendingMixTime: "not yet computed"
\* IEEE values the code's arithmetic can produce; the operations on them are
\* spelled out where they occur
NaN      == -2
Infinity == -3
\* A track whose MIDI file holds a tempo event of 0 microseconds per beat:
\* parseMidi stores bpm = 60000000 / 0 = Infinity for it
BadTrack == NumTracks + 1

Min(a, b) == IF a < b THEN a ELSE b
Max(a, b) == IF a > b THEN a ELSE b

\* ------------------------------------------------------ beatScheduler.ts
\* getNativeBpm(beatMap): BPM of the first tempo event of the track.
TrackBpm(t) == IF t = BadTrack THEN Infinity ELSE 120

\* Bar length in seconds at a BPM: beatsPerBar * (60 / bpm), 4 beats a bar.
BarDuration(bpm) == IF bpm = Infinity THEN 0 ELSE (4 * 60) \div bpm

\* getNextDownbeat(beatMap, t, effectiveBpm).timeSeconds.  With a bar of length
\* 0, floor(t / 0) is Infinity (or NaN at t = 0) and its product with 0 is NaN.
GetNextDownbeat(t, bpm) ==
  IF BarDuration(bpm) = 0 THEN NaN
  ELSE ((t \div BarDuration(bpm)) + 1) * BarDuration(bpm)

\* ---------------------------------------------------------------- deck.ts
NewDeck ==
  [state |-> "idle", track |-> 0, audioBuffer |-> 0, shifter |-> 0,
   playbackRate |-> 2, volume |-> 1000, pausedAt |-> 0,
   playStartAudioTime |-> 0, accumulatedOffset |-> 0]

TrackDuration(t) == Duration

DeckIsPlaying(dk) == dk.state \in {"playing", "fading-in", "fading-out"}
DeckIsPaused(dk)  == dk.state = "paused"

\* Deck.getCurrentTime at audio time n
DeckGetCurrentTime(dk, n) ==
  IF dk.audioBuffer = 0 THEN 0
  ELSE IF ~DeckIsPlaying(dk) /\ dk.state = "paused" THEN dk.pausedAt
  ELSE IF dk.shifter = 0 THEN 0
  ELSE Min(dk.accumulatedOffset
             + ((n - dk.playStartAudioTime) * dk.playbackRate) \div 2,
           TrackDuration(dk.audioBuffer))

\* Deck.isFinished: position >= duration - 0.05 (whole seconds here)
DeckIsFinished(dk, n) ==
  /\ dk.audioBuffer # 0
  /\ dk.shifter # 0
  /\ DeckGetCurrentTime(dk, n) >= TrackDuration(dk.audioBuffer)

DeckGetNativeBpm(dk) == IF dk.track = 0 THEN 120 ELSE TrackBpm(dk.track)
DeckGetEffectiveBpm(dk) ==
  IF DeckGetNativeBpm(dk) = Infinity THEN Infinity
  ELSE (DeckGetNativeBpm(dk) * dk.playbackRate) \div 2
DeckGetDuration(dk) == IF dk.audioBuffer = 0 THEN 0 ELSE TrackDuration(dk.audioBuffer)

\* Deck.loadTrack, the part before the first await
DeckLoadStart(dk, t) == [dk EXCEPT !.state = "loading", !.track = t]
\* Deck.loadTrack, the part after decodeAudioData resolved
DeckLoadDone(dk, t) == [dk EXCEPT !.audioBuffer = t, !.state = "idle"]

DeckStop(dk) ==
  [dk EXCEPT !.shifter = 0, !.pausedAt = 0, !.accumulatedOffset = 0,
             !.playStartAudioTime = 0, !.state = "idle"]

DeckPlay(dk, startOffset, n) ==
  IF dk.audioBuffer = 0 \/ dk.track = 0 THEN dk
  ELSE [DeckStop(dk) EXCEPT !.shifter = dk.audioBuffer,
                            !.accumulatedOffset = startOffset,
                            !.playStartAudioTime = n,
                            !.state = "playing"]

DeckPause(dk, n) ==
  IF dk.shifter = 0 \/ dk.audioBuffer = 0 THEN dk
  ELSE IF ~DeckIsPlaying(dk) THEN dk
  ELSE [dk EXCEPT !.pausedAt = DeckGetCurrentTime(dk, n),
                  !.shifter = 0, !.state = "paused"]

\* Deck.resume(fromPosition); fromPosition = NULL stands for "not given"
DeckResume(dk, fromPosition, n) ==
  IF dk.state # "paused" \/ dk.audioBuffer = 0 THEN dk
  ELSE DeckPlay(dk, IF fromPosition = NULL THEN dk.pausedAt ELSE fromPosition, n)

DeckSetVolume(dk, v) == [dk EXCEPT !.volume = v]

DeckSetPlaybackRate(dk, rate, n) ==
  LET folded ==
        IF DeckIsPlaying(dk) /\ dk.playStartAudioTime > 0
        THEN [dk EXCEPT !.accumulatedOffset =
                          @ + ((n - dk.playStartAudioTime) * dk.playbackRate) \div 2,
                        !.playStartAudioTime = n]
        ELSE dk
  IN [folded EXCEPT !.playbackRate = rate]

DeckSetState(dk, st) == [dk EXCEPT !.state = st]


\* ------------------------------------------------------- queueManager.ts
\* QueueManager.createItem / the item built by add: ids count up from 1
CreateItem(s, t) == [id |-> s.idCounter + 1, track |-> t]

\* add that appends whatever the position (what C22 rules out)
QmAddAlwaysEnd(s, t, position) ==
  [s EXCEPT !.idCounter = @ + 1,
            !.queue = Append(@, [id |-> s.idCounter + 1, track |-> t])]

\* QueueManager.add(track, position, config)
QmAdd(s, t, position) ==
  LET item == CreateItem(s, t) IN
  [s EXCEPT !.idCounter = @ + 1,
            !.queue = IF position = "next" THEN <<item>> \o @ ELSE Append(@, item)]

\* remove that also empties the active slot when it holds that id (what C24
\* rules out)
QmRemoveAlsoActive(s, itemId) ==
  LET hits == {i \in 1..Len(s.queue) : s.queue[i].id = itemId} IN
  [s EXCEPT !.activeItem = IF @.id = itemId THEN NoItem ELSE @,
            !.queue = IF hits = {} THEN @
                      ELSE LET k == CHOOSE i \in hits : \A j \in hits : i <= j
                           IN SubSeq(@, 1, k - 1) \o SubSeq(@, k + 1, Len(@))]

\* QueueManager.remove(itemId): the first pending item with that id
QmRemove(s, itemId) ==
  LET hits == {i \in 1..Len(s.queue) : s.queue[i].id = itemId} IN
  IF hits = {} THEN s
  ELSE LET k == CHOOSE i \in hits : \A j \in hits : i <= j IN
       [s EXCEPT !.queue = SubSeq(@, 1, k - 1) \o SubSeq(@, k + 1, Len(@))]

\* reorder that exchanges the two items instead of moving one (what C23 rules
\* out)
QmReorderSwap(s, fromIndex, toIndex) ==
  LET q == s.queue IN
  IF fromIndex < 0 \/ fromIndex >= Len(q) THEN s
  ELSE IF toIndex < 0 \/ toIndex >= Len(q) THEN s
  ELSE IF fromIndex = toIndex THEN s
  ELSE [s EXCEPT !.queue = [q EXCEPT ![fromIndex + 1] = q[toIndex + 1],
                                     ![toIndex + 1] = q[fromIndex + 1]]]

\* QueueManager.reorder(fromIndex, toIndex), indices from 0 as in the code
QmReorder(s, fromIndex, toIndex) ==
  LET q == s.queue IN
  IF fromIndex < 0 \/ fromIndex >= Len(q) THEN s
  ELSE IF toIndex < 0 \/ toIndex >= Len(q) THEN s
  ELSE IF fromIndex = toIndex THEN s
  ELSE LET item == q[fromIndex + 1]
           rest == SubSeq(q, 1, fromIndex) \o SubSeq(q, fromIndex + 2, Len(q))
       IN [s EXCEPT !.queue = SubSeq(rest, 1, toIndex) \o <<item>>
                                \o SubSeq(rest, toIndex + 1, Len(rest))]

\* QueueManager.shift(): the returned item (NoItem for null) and the state left
QmShiftResult(s) == IF s.queue = <<>> THEN NoItem ELSE Head(s.queue)
QmShift(s) == [s EXCEPT !.queue = IF @ = <<>> THEN @ ELSE Tail(@)]

\* QueueManager.remove(itemId): the returned item (NoItem for null)
QmRemoveResult(s, itemId) ==
  LET hits == {i \in 1..Len(s.queue) : s.queue[i].id = itemId} IN
  IF hits = {} THEN NoItem
  ELSE s.queue[CHOOSE i \in hits : \A j \in hits : i <= j]

\* QueueManager.setActiveItem(item)
QmSetActiveItem(s, item) == [s EXCEPT !.activeItem = item]

\* clear that also restarts the id counter (what C25 rules out)
QmClearResetsIds(s) == [s EXCEPT !.queue = <<>>, !.activeItem = NoItem, !.idCounter = 0]

\* QueueManager.clear()
QmClear(s) == [s EXCEPT !.queue = <<>>, !.activeItem = NoItem]

\* ------------------------------------------------------ dualDeckEngine.ts
Other(d) == IF d = "A" THEN "B" ELSE "A"
GetActiveDeck(s)   == s.deck[s.activeDeck]
GetInactiveDeck(s) == s.deck[Other(s.activeDeck)]

\* prepareQueueItem(item), up to the await of loadTrack.  cont = "force" when the
\* caller (mixTrackImmediately, queueTrack) awaits it and then sets
\* forceImmediateMix; a rejected call resolves at once, so that continuation
\* runs within the same turn of the event loop.
PrepareRejects(s) == s.preparingQueueItem

PrepareQueueItem(s, item, cont) ==
  IF PrepareRejects(s)
  THEN [s EXCEPT !.forceImmediateMix = IF cont = "force" THEN TRUE ELSE @]
  ELSE LET d == Other(s.activeDeck) IN
       [s EXCEPT !.preparingQueueItem = TRUE,
                 !.deck[d] = DeckLoadStart(@, item.track),
                 !.loads = @ \cup {[kind |-> "prepare", deck |-> d, item |-> item,
                                    cont |-> cont]}]

\* advanceQueue()
AdvanceQueue(s) ==
  IF s.queue = <<>> THEN s
  ELSE PrepareQueueItem([s EXCEPT !.queue = Tail(@)], Head(s.queue), "none")

\* executeCut that stops the outgoing deck within the call instead of leaving
\* it to the callback (what C38 rules out)
ExecuteCutStopsOutgoing(s) ==
  LET a == s.activeDeck
      i == Other(s.activeDeck)
      incomingNativeBpm == DeckGetNativeBpm(s.deck[i])
      rate == IF s.fixTempo THEN (2 * s.targetBpm) \div incomingNativeBpm ELSE 2
      incoming ==
        DeckSetState(
          DeckSetVolume(
            DeckPlay(DeckSetVolume(DeckSetPlaybackRate(s.deck[i], rate, s.now), 0),
                     0, s.now),
            1000),
          "playing")
      s1 == [s EXCEPT !.deck[a] = DeckSetVolume(DeckStop(@), 1000),
                      !.deck[i] = incoming,
                      !.targetBpm = IF s.fixTempo THEN @ ELSE incomingNativeBpm,
                      !.activeDeck = i,
                      !.phase = "playing",
                      !.forceImmediateMix = FALSE,
                      !.autoAdvanceRequested = FALSE,
                      !.activeItem = NoItem,
                      !.cbCount = 0]
  IN AdvanceQueue(s1)

\* executeCut(activeDeck, inactiveDeck)
ExecuteCut(s) ==
  LET a == s.activeDeck
      i == Other(s.activeDeck)
      incomingNativeBpm == DeckGetNativeBpm(s.deck[i])
      rate == IF s.fixTempo THEN (2 * s.targetBpm) \div incomingNativeBpm ELSE 2
      incoming ==
        DeckSetState(
          DeckSetVolume(
            DeckPlay(DeckSetVolume(DeckSetPlaybackRate(s.deck[i], rate, s.now), 0),
                     0, s.now),
            1000),
          "playing")
      s1 == [s EXCEPT !.deck[a] = DeckSetVolume(@, 0),
                      !.deck[i] = incoming,
                      !.targetBpm = IF s.fixTempo THEN @ ELSE incomingNativeBpm,
                      !.timers = @ \cup {[kind |-> "cutStop", deck |-> a]},
                      !.activeDeck = i,
                      !.phase = "playing",
                      !.forceImmediateMix = FALSE,
                      !.autoAdvanceRequested = FALSE,
                      !.activeItem = NoItem,
                      !.cbCount = 0]
  IN AdvanceQueue(s1)

\* startMix() without the abort on a missing active item (what C16 rules out)
StartMixUnguarded(s) ==
  IF s.transitionMode = "cut" THEN ExecuteCut(s)
  ELSE
    LET a == s.activeDeck
        i == Other(s.activeDeck)
        currentRate == (2 * DeckGetNativeBpm(s.deck[a])) \div DeckGetNativeBpm(s.deck[i])
        bpm == DeckGetEffectiveBpm(s.deck[a])
        incoming ==
          DeckSetState(
            DeckPlay(DeckSetVolume(DeckSetPlaybackRate(s.deck[i], currentRate, s.now), 0),
                     0, s.now),
            "fading-in")
    IN [s EXCEPT !.mixDuration = BarDuration(bpm) * 2,
                 !.mixStartTime = s.now,
                 !.deck[i] = incoming,
                 !.deck[a] = DeckSetState(@, "fading-out"),
                 !.phase = "mixing"]

\* startMix()
StartMix(s) ==
  IF s.activeItem = NoItem THEN s
  ELSE IF s.transitionMode = "cut" THEN ExecuteCut(s)
  ELSE
    LET a == s.activeDeck
        i == Other(s.activeDeck)
        currentRate == (2 * DeckGetNativeBpm(s.deck[a])) \div DeckGetNativeBpm(s.deck[i])
        bpm == DeckGetEffectiveBpm(s.deck[a])
        incoming ==
          DeckSetState(
            DeckPlay(DeckSetVolume(DeckSetPlaybackRate(s.deck[i], currentRate, s.now), 0),
                     0, s.now),
            "fading-in")
    IN [s EXCEPT !.mixDuration = BarDuration(bpm) * 2,
                 !.mixStartTime = s.now,
                 !.deck[i] = incoming,
                 !.deck[a] = DeckSetState(@, "fading-out"),
                 !.phase = "mixing"]

\* completeMix()
CompleteMix(s) ==
  LET a == s.activeDeck
      i == Other(s.activeDeck)
      s1 == [s EXCEPT !.deck[a] = DeckSetVolume(DeckStop(@), 1000),
                      !.deck[i] = DeckSetState(DeckSetVolume(@, 1000), "playing"),
                      !.activeDeck = i,
                      !.targetBpm = DeckGetNativeBpm(s.deck[i]),
                      !.phase = "playing",
                      !.forceImmediateMix = FALSE,
                      !.autoAdvanceRequested = FALSE,
                      !.activeItem = NoItem,
                      !.mixDuration = 0,
                      !.cbCount = 0]
  IN AdvanceQueue(s1)

\* addToQueue(track, position)
AddToQueue(s, t, position) ==
  LET s1 == QmAdd(s, t, position) IN
  IF s1.activeItem = NoItem /\ s1.phase = "playing" THEN AdvanceQueue(s1) ELSE s1


\* a linear fade in place of the cosine (what C28 rules out)
CosQLinear(q) == 1000 - 250 * q

\* Equal-power curve: 1000 * cos(q * pi / 8) for progress q / 4
CosQ(q) == <<1000, 924, 707, 383, 0>>[q + 1]
SinQ(q) == CosQ(4 - q)

\* a tick without the pause gate (what C6 rules out)
TickSkipsNever(s) == FALSE

\* schedulerTick, line 177: the engine-level pause gates the whole tick
TickSkips(s) == s.isPausedByUser

\* the auto-advance block with the test on the pending list inverted (what C8
\* rules out)
AutoAdvanceAppliesWhenPending(s) ==
  /\ s.phase = "playing"
  /\ s.queue # <<>>
  /\ s.activeItem = NoItem
  /\ ~s.preparingQueueItem

\* schedulerTick, line 184: the auto-advance block applies
AutoAdvanceApplies(s) ==
  /\ s.phase = "playing"
  /\ s.queue = <<>>
  /\ s.activeItem = NoItem
  /\ ~s.preparingQueueItem

\* schedulerTick, lines 183-193.  cb is what the registered callback does when
\* invoked: 0 = nothing (auto-advance mode "stop"), a track = the App's
\* addToQueue(track, 'end').
TickAutoAdvance(s, cb) ==
  IF ~AutoAdvanceApplies(s) THEN s
  ELSE LET s1 == IF ~s.autoAdvanceRequested /\ s.onTrackEnded
                 THEN LET f == [s EXCEPT !.autoAdvanceRequested = TRUE,
                                         !.cbCount = Min(@ + 1, 2)]
                      IN IF cb = 0 THEN f
                         ELSE AddToQueue([f EXCEPT !.calls = @ - 1], cb, "end")
                 ELSE s
       IN IF DeckIsFinished(s1.deck[s.activeDeck], s.now)
          THEN [s1 EXCEPT !.phase = "idle"]
          ELSE s1

\* schedulerTick, lines 195-223.  a, i: the decks captured at the top of the tick
TickMixing(s, a, i) ==
  IF ~(s.phase = "mixing" /\ s.mixDuration > 0) THEN s
  ELSE LET elapsed == s.now - s.mixStartTime
           q == Min((4 * elapsed) \div s.mixDuration, 4)
           currentNative  == DeckGetNativeBpm(s.deck[a])
           incomingNative == DeckGetNativeBpm(s.deck[i])
           slidingBpm == currentNative + ((incomingNative - currentNative) * q) \div 4
           outRate == (2 * slidingBpm) \div currentNative
           inRate  == (2 * slidingBpm) \div incomingNative
           s1 == [s EXCEPT
                    !.deck[a] = DeckSetPlaybackRate(DeckSetVolume(@, CosQ(q)), outRate, s.now),
                    !.deck[i] = DeckSetPlaybackRate(DeckSetVolume(@, SinQ(q)), inRate, s.now),
                    !.targetBpm = slidingBpm]
       IN IF elapsed >= s.mixDuration THEN CompleteMix(s1) ELSE s1

\* schedulerTick, lines 227-276: the deadline computed when none is scheduled.
\* NULL = the tick returns without scheduling (invalid duration or BPM).
\* "now + 1" stands for the code's now + 0.1: later than now, before the next
\* value of the clock.
ComputeMixTime(s, a) ==
  LET dk == s.deck[a]
      currentTime == DeckGetCurrentTime(dk, s.now)
      rate == IF dk.playbackRate = 0 THEN 2 ELSE dk.playbackRate
      nextDownbeat == GetNextDownbeat(currentTime, DeckGetEffectiveBpm(dk))
      atDownbeat ==
        IF dk.track = 0 THEN s.now + 1
        ELSE IF nextDownbeat = NaN THEN NaN
        ELSE s.now + (2 * (nextDownbeat - currentTime)) \div rate
      duration == DeckGetDuration(dk)
      nativeBpm == DeckGetNativeBpm(dk)
      twoBars == 2 * BarDuration(nativeBpm)
      mixStartTrackTime == Max(0, duration - twoBars)
  IN IF s.forceImmediateMix THEN atDownbeat
     ELSE IF duration <= 0 \/ nativeBpm = Infinity \/ nativeBpm <= 0 THEN NULL
     ELSE IF currentTime >= mixStartTrackTime THEN atDownbeat
     ELSE s.now + (2 * (mixStartTrackTime - currentTime)) \div rate

\* schedulerTick, lines 227-276: the branch that computes the deadline
MixTimeKind(s, a) ==
  LET dk == s.deck[a]
      mixStartTrackTime == Max(0, DeckGetDuration(dk) - 2 * BarDuration(DeckGetNativeBpm(dk)))
  IN IF s.forceImmediateMix THEN "immediate"
     ELSE IF DeckGetCurrentTime(dk, s.now) >= mixStartTrackTime THEN "fallback"
     ELSE "normal"

\* schedulerTick, lines 225-285
TickQueued(s, a) ==
  IF ~(s.phase = "queued" /\ DeckIsPlaying(s.deck[a])) THEN s
  ELSE LET s1 == IF s.pendingMixTime = NULL
                 THEN [s EXCEPT !.pendingMixTime = ComputeMixTime(s, a),
                                !.mixTimeKind = MixTimeKind(s, a)]
                 ELSE s
       IN IF /\ s1.pendingMixTime # NULL
             /\ s1.pendingMixTime # NaN          \* now >= NaN is false
             /\ s1.now >= s1.pendingMixTime
          THEN StartMix([s1 EXCEPT !.pendingMixTime = NULL,
                                   !.forceImmediateMix = FALSE])
          ELSE s1

\* schedulerTick()
SchedulerTick(s, cb) ==
  IF TickSkips(s) THEN s
  ELSE LET a == s.activeDeck
           i == Other(s.activeDeck)
       IN TickQueued(TickMixing(TickAutoAdvance(s, cb), a, i), a)

\* playTrackImmediately(track), up to the await of loadTrack
PlayTrackImmediately(s, t) ==
  LET d == s.activeDeck IN
  [s EXCEPT !.deck[d] = DeckLoadStart(@, t),
            !.loads = @ \cup {[kind |-> "play", deck |-> d,
                               item |-> [id |-> 0, track |-> t], cont |-> "none"]}]

\* playTrackImmediately(track), after loadTrack resolved
PlayTrackLoaded(s, l) ==
  LET d == l.deck
      t == l.item.track
      dk == DeckSetVolume(
              DeckPlay(DeckSetVolume(DeckSetPlaybackRate(DeckLoadDone(s.deck[d], t),
                                                         2, s.now), 0),
                       0, s.now),
              1000)
  IN [s EXCEPT !.deck[d] = dk,
               !.targetBpm = TrackBpm(t),
               !.phase = "playing",
               !.cbCount = 0,
               !.loads = @ \ {l}]

\* prepareQueueItem(item), after loadTrack resolved, and the awaiting caller's
\* continuation
PrepareLoaded(s, l) ==
  [s EXCEPT !.deck[l.deck] = DeckLoadDone(@, l.item.track),
            !.activeItem = l.item,
            !.pendingMixTime = NULL,
            !.phase = "queued",
            !.preparingQueueItem = FALSE,
            !.forceImmediateMix = IF l.cont = "force" THEN TRUE ELSE @,
            !.loads = @ \ {l}]

\* loadTrack rejected (decode failure): the deck stays as loadTrack left it;
\* prepareQueueItem's finally block still runs
LoadFailed(s, l) ==
  [s EXCEPT !.preparingQueueItem = IF l.kind = "prepare" THEN FALSE ELSE @,
            !.loads = @ \ {l}]

\* preserveActiveItem that leaves the item in the active slot as well (what
\* C40 rules out)
PreserveActiveItemKeepsSlot(s) ==
  IF s.activeItem = NoItem THEN s
  ELSE [s EXCEPT !.queue = <<s.activeItem>> \o @]

\* preserveActiveItem()
PreserveActiveItem(s) ==
  IF s.activeItem = NoItem THEN s
  ELSE [s EXCEPT !.queue = <<s.activeItem>> \o @, !.activeItem = NoItem]

\* queueTrack(track)
QueueTrack(s, t) ==
  LET s1 == PreserveActiveItem([s EXCEPT !.autoAdvanceRequested = FALSE])
      item == CreateItem(s1, t)
  IN PrepareQueueItem([s1 EXCEPT !.idCounter = @ + 1], item, "force")

\* loadAndPlayTrack(track)
LoadAndPlayTrack(s, t) ==
  IF DeckIsPlaying(GetActiveDeck(s)) THEN QueueTrack(s, t)
  ELSE PlayTrackImmediately(s, t)

\* mixTrackImmediately(track)
MixTrackImmediately(s, t) ==
  LET s0 == [s EXCEPT !.autoAdvanceRequested = FALSE] IN
  IF ~DeckIsPlaying(GetActiveDeck(s0)) THEN PlayTrackImmediately(s0, t)
  ELSE LET s1 == PreserveActiveItem(s0)
           item == CreateItem(s1, t)
       IN PrepareQueueItem([s1 EXCEPT !.idCounter = @ + 1], item, "force")

\* cancelQueue() that empties the slot and leaves the phase (what C14 rules out)
CancelQueueKeepsPhase(s) == [s EXCEPT !.activeItem = NoItem]

\* cancelQueue()
CancelQueue(s) ==
  [s EXCEPT !.activeItem = NoItem,
            !.phase = IF @ = "queued" THEN "playing" ELSE @]

\* clearQueue()
ClearQueue(s) ==
  [QmClear(s) EXCEPT !.preparingQueueItem = FALSE,
                     !.pendingMixTime = NULL,
                     !.forceImmediateMix = FALSE,
                     !.phase = IF @ = "queued" THEN "playing" ELSE @]

\* stop() that stops the active deck only (what C13 rules out)
StopActiveOnly(s) ==
  [QmClear(s) EXCEPT !.deck[s.activeDeck] = DeckStop(@),
                     !.phase = "idle",
                     !.mixDuration = 0,
                     !.pendingMixTime = NULL,
                     !.forceImmediateMix = FALSE,
                     !.autoAdvanceRequested = FALSE,
                     !.preparingQueueItem = FALSE,
                     !.isPausedByUser = FALSE]

\* stop()
Stop(s) ==
  [QmClear(s) EXCEPT !.deck = [d \in DeckIds |-> DeckStop(s.deck[d])],
                     !.phase = "idle",
                     !.mixDuration = 0,
                     !.pendingMixTime = NULL,
                     !.forceImmediateMix = FALSE,
                     !.autoAdvanceRequested = FALSE,
                     !.preparingQueueItem = FALSE,
                     !.isPausedByUser = FALSE]

\* setTargetBpm(bpm)
SetTargetBpm(s, bpm) == [s EXCEPT !.targetBpm = Max(60, Min(200, bpm))]

\* setFixTempo(enabled)
SetFixTempo(s, enabled) ==
  LET a == s.activeDeck
      dk == s.deck[a]
  IN IF enabled /\ DeckIsPlaying(dk)
     THEN [s EXCEPT !.fixTempo = enabled,
                    !.deck[a] = DeckSetPlaybackRate(
                                  @, (2 * s.targetBpm) \div DeckGetNativeBpm(dk), s.now)]
     ELSE IF ~enabled /\ DeckIsPlaying(dk)
     THEN [s EXCEPT !.fixTempo = enabled,
                    !.deck[a] = DeckSetPlaybackRate(@, 2, s.now),
                    !.targetBpm = DeckGetNativeBpm(dk)]
     ELSE [s EXCEPT !.fixTempo = enabled]

\* pause()
Pause(s) ==
  LET a == s.activeDeck
      i == Other(s.activeDeck)
  IN IF ~DeckIsPlaying(s.deck[a]) /\ s.phase # "mixing" THEN s
     ELSE LET s1 == [s EXCEPT !.isPausedByUser = TRUE,
                              !.deck[a] = DeckSetVolume(@, 0),
                              !.timers = @ \cup {[kind |-> "pause", deck |-> a]}]
          IN IF DeckIsPlaying(s.deck[i])
             THEN [s1 EXCEPT !.deck[i] = DeckSetVolume(@, 0),
                             !.timers = @ \cup {[kind |-> "pause", deck |-> i]}]
             ELSE s1

\* resumePlayback(): rewinds resumeRewindTime = 1 s
ResumePlayback(s) ==
  LET a == s.activeDeck
      i == Other(s.activeDeck)
  IN IF ~DeckIsPaused(s.deck[a]) THEN s
     ELSE LET rewindPos == Max(0, DeckGetCurrentTime(s.deck[a], s.now) - 1)
              s1 == [s EXCEPT !.deck[a] =
                       DeckSetVolume(DeckResume(DeckSetVolume(@, 0), rewindPos, s.now), 1000)]
              s2 == IF DeckIsPaused(s.deck[i])
                    THEN [s1 EXCEPT !.deck[i] =
                            DeckSetVolume(DeckResume(DeckSetVolume(@, 0), NULL, s.now), 1000)]
                    ELSE s1
          IN [s2 EXCEPT !.isPausedByUser = FALSE]

\* togglePause()
TogglePause(s) == IF s.isPausedByUser THEN ResumePlayback(s) ELSE Pause(s)

\* rewind() without the branch that cancels a running mix (what C12 rules out)
RewindKeepsMix(s) ==
  LET a == s.activeDeck
  IN IF s.deck[a].track = 0 THEN s
     ELSE LET s2 == [s EXCEPT !.deck[a] =
                         DeckSetVolume(DeckPlay(DeckSetVolume(@, 0), 0, s.now), 1000),
                       !.phase = "playing",
                       !.pendingMixTime = NULL,
                       !.forceImmediateMix = FALSE,
                       !.autoAdvanceRequested = FALSE,
                       !.isPausedByUser = FALSE,
                       !.cbCount = 0]
          IN IF s2.activeItem # NoItem
             THEN PrepareQueueItem([s2 EXCEPT !.activeItem = NoItem,
                                              !.preparingQueueItem = FALSE],
                                   s2.activeItem, "none")
             ELSE s2

\* rewind()
Rewind(s) ==
  LET a == s.activeDeck
      i == Other(s.activeDeck)
  IN IF s.deck[a].track = 0 THEN s
     ELSE LET s1 == IF s.phase = "mixing"
                    THEN [s EXCEPT !.deck[i] = DeckSetVolume(DeckStop(@), 1000),
                                   !.deck[a] = DeckSetState(DeckSetVolume(@, 1000), "playing"),
                                   !.mixDuration = 0]
                    ELSE s
              s2 == [s1 EXCEPT !.deck[a] =
                         DeckSetVolume(DeckPlay(DeckSetVolume(@, 0), 0, s.now), 1000),
                       !.phase = "playing",
                       !.pendingMixTime = NULL,
                       !.forceImmediateMix = FALSE,
                       !.autoAdvanceRequested = FALSE,
                       !.isPausedByUser = FALSE,
                       !.cbCount = 0]
          IN IF s2.activeItem # NoItem
             THEN PrepareQueueItem([s2 EXCEPT !.activeItem = NoItem,
                                              !.preparingQueueItem = FALSE],
                                   s2.activeItem, "none")
             ELSE s2

\* triggerNext()
TriggerNext(s) ==
  IF s.phase = "queued" /\ s.activeItem # NoItem
  THEN StartMix([s EXCEPT !.pendingMixTime = NULL, !.forceImmediateMix = FALSE])
  ELSE IF Len(s.queue) > 0
  THEN AdvanceQueue([s EXCEPT !.forceImmediateMix = TRUE])
  ELSE s

\* The callbacks left with setTimeout: executeCut's (lines 364-367) stops the
\* outgoing deck after its fade; pause's (lines 742-747, 752-757) pauses a deck
\* after the pause fade.
TimerFires(s, tm) ==
  LET dk == s.deck[tm.deck]
      after == IF tm.kind = "cutStop" THEN DeckSetVolume(DeckStop(dk), 1000)
               ELSE DeckSetVolume(IF DeckIsPlaying(dk) THEN DeckPause(dk, s.now) ELSE dk,
                                  1000)
  IN [s EXCEPT !.deck[tm.deck] = after, !.timers = @ \ {tm}]


\* ------------------------------------------------------------------ state
VARIABLES
  phase, activeDeck, deck,            \* DualDeckEngine: phase, activeDeck, deckA/deckB
  queue, activeItem, idCounter,       \* QueueManager
  onTrackEnded,                       \* a callback is registered
  transitionMode, fixTempo, targetBpm,
  mixStartTime, mixDuration, pendingMixTime,
  forceImmediateMix, autoAdvanceRequested, preparingQueueItem, isPausedByUser,
  now,                                \* AudioContext.currentTime
  loads,                              \* loadTrack promises not yet settled
  timers,                             \* setTimeout callbacks not yet run
  mixTimeKind,                        \* history: the branch of the tick that computed pendingMixTime
  cbCount,                            \* history: onTrackEnded calls since the active track started
  calls,                              \* history: calls of the public API still allowed
  lastOp                              \* history: the step taken last

vars == <<phase, activeDeck, deck, queue, activeItem, idCounter, onTrackEnded,
          transitionMode, fixTempo, targetBpm, mixStartTime, mixDuration,
          pendingMixTime, forceImmediateMix, autoAdvanceRequested,
          preparingQueueItem, isPausedByUser, now, loads, timers, mixTimeKind,
          cbCount, calls, lastOp>>

\* everything but the history variable lastOp
progVars == <<phase, activeDeck, deck, queue, activeItem, idCounter, onTrackEnded,
              transitionMode, fixTempo, targetBpm, mixStartTime, mixDuration,
              pendingMixTime, forceImmediateMix, autoAdvanceRequested,
              preparingQueueItem, isPausedByUser, now, loads, timers, mixTimeKind,
              cbCount, calls>>

Cur ==
  [phase |-> phase, activeDeck |-> activeDeck, deck |-> deck, queue |-> queue,
   activeItem |-> activeItem, idCounter |-> idCounter, onTrackEnded |-> onTrackEnded,
   transitionMode |-> transitionMode, fixTempo |-> fixTempo, targetBpm |-> targetBpm,
   mixStartTime |-> mixStartTime, mixDuration |-> mixDuration,
   pendingMixTime |-> pendingMixTime, forceImmediateMix |-> forceImmediateMix,
   autoAdvanceRequested |-> autoAdvanceRequested,
   preparingQueueItem |-> preparingQueueItem, isPausedByUser |-> isPausedByUser,
   now |-> now, loads |-> loads, timers |-> timers, mixTimeKind |-> mixTimeKind,
   cbCount |-> cbCount,
   calls |-> calls]

Commit(s, op) ==
  /\ phase' = s.phase
  /\ activeDeck' = s.activeDeck
  /\ deck' = s.deck
  /\ queue' = s.queue
  /\ activeItem' = s.activeItem
  /\ idCounter' = s.idCounter
  /\ onTrackEnded' = s.onTrackEnded
  /\ transitionMode' = s.transitionMode
  /\ fixTempo' = s.fixTempo
  /\ targetBpm' = s.targetBpm
  /\ mixStartTime' = s.mixStartTime
  /\ mixDuration' = s.mixDuration
  /\ pendingMixTime' = s.pendingMixTime
  /\ forceImmediateMix' = s.forceImmediateMix
  /\ autoAdvanceRequested' = s.autoAdvanceRequested
  /\ preparingQueueItem' = s.preparingQueueItem
  /\ isPausedByUser' = s.isPausedByUser
  /\ now' = s.now
  /\ loads' = s.loads
  /\ timers' = s.timers
  /\ mixTimeKind' = IF s.pendingMixTime = NULL THEN "none" ELSE s.mixTimeKind
  /\ cbCount' = s.cbCount
  /\ calls' = s.calls
  /\ lastOp' = op

\* The engine after construction and init(): fields at their initialisers
\* (lines 61-122), two fresh decks, the scheduler running, and the App's
\* start-up calls of setConfig (the transition mode) and setOnTrackEnded made.
Init ==
  /\ phase = "idle"
  /\ activeDeck = "A"
  /\ deck = [d \in DeckIds |-> NewDeck]
  /\ queue = <<>>
  /\ activeItem = NoItem
  /\ idCounter = 0
  /\ onTrackEnded \in BOOLEAN
  /\ transitionMode \in {"mix", "cut"}
  /\ fixTempo = FALSE
  /\ targetBpm = 120
  /\ mixStartTime = 0
  /\ mixDuration = 0
  /\ pendingMixTime = NULL
  /\ forceImmediateMix = FALSE
  /\ autoAdvanceRequested = FALSE
  /\ preparingQueueItem = FALSE
  /\ isPausedByUser = FALSE
  /\ now = 0
  /\ loads = {}
  /\ timers = {}
  /\ mixTimeKind = "none"
  /\ cbCount = 0
  /\ calls = MaxCalls
  /\ lastOp = <<"init">>

\* ---------------------------------------------------------------- actions
\* A call of the public API: the engine's method, counted
Call(s, op) ==
  /\ calls > 0
  /\ Commit([s EXCEPT !.calls = @ - 1], op)

\* One animation frame.  The callback's addToQueue is a call of the public API
\* and is counted as one.
Tick ==
  \E cb \in {0} \cup (IF idCounter < MaxId /\ calls > 0 THEN Tracks ELSE {}) :
    Commit(SchedulerTick(Cur, cb), <<"tick">>)

\* The audio clock advances by one bar (2 s); the short timers (at most about
\* one second) have run by then.
Tock ==
  /\ timers = {}
  /\ now + 2 <= MaxNow
  /\ Commit([Cur EXCEPT !.now = @ + 2], <<"tock">>)

LoadCompletes ==
  \E l \in loads :
    Commit(IF l.kind = "play" THEN PlayTrackLoaded(Cur, l) ELSE PrepareLoaded(Cur, l),
           <<"loaded", l.kind>>)

LoadFails ==
  \E l \in loads : Commit(LoadFailed(Cur, l), <<"loadFailed", l.kind>>)

TimerRuns ==
  \E tm \in timers : Commit(TimerFires(Cur, tm), <<"timer", tm.kind, tm.deck>>)

\* A second identical playTrackImmediately load is not started while the first
\* is in flight (loads is a set).
CallLoadAndPlay ==
  \E t \in Tracks :
    /\ idCounter < MaxId
    /\ [kind |-> "play", deck |-> activeDeck, item |-> [id |-> 0, track |-> t],
        cont |-> "none"] \notin loads
    /\ Call(LoadAndPlayTrack(Cur, t), <<"loadAndPlay">>)

CallMixNow ==
  \E t \in Tracks :
    /\ idCounter < MaxId
    /\ [kind |-> "play", deck |-> activeDeck, item |-> [id |-> 0, track |-> t],
        cont |-> "none"] \notin loads
    /\ Call(MixTrackImmediately(Cur, t), <<"mixNow">>)

CallAddToQueue ==
  \E t \in Tracks, position \in {"end", "next"} :
    /\ idCounter < MaxId
    /\ Call(AddToQueue(Cur, t, position), <<"enqueue">>)

\* lastOp records whether the step before was a cancelQueue as well
CallCancelQueue ==
  Call(CancelQueue(Cur), <<"cancelQueue", lastOp[1] = "cancelQueue">>)

CallRemoveFromQueue ==
  \E id \in 1..MaxId : Call(QmRemove(Cur, id), <<"remove">>)

CallReorderQueue ==
  \E f \in 0..MaxId, t \in 0..MaxId : Call(QmReorder(Cur, f, t), <<"reorder">>)

CallClearQueue == Call(ClearQueue(Cur), <<"clearQueue">>)

CallStop == Call(Stop(Cur), <<"stop">>)

CallSetTargetBpm ==
  \E bpm \in {30, 60, 120} : Call(SetTargetBpm(Cur, bpm), <<"setTargetBpm">>)

CallSetFixTempo ==
  \E b \in BOOLEAN : Call(SetFixTempo(Cur, b), <<"setFixTempo">>)

CallTogglePause == Call(TogglePause(Cur), <<"togglePause">>)

CallRewind == Call(Rewind(Cur), <<"rewind">>)

CallTriggerNext == Call(TriggerNext(Cur), <<"triggerNext">>)

Next ==
  \/ Tick
  \/ Tock
  \/ LoadCompletes
  \/ LoadFails
  \/ TimerRuns
  \/ CallLoadAndPlay
  \/ CallMixNow
  \/ CallAddToQueue
  \/ CallCancelQueue
  \/ CallRemoveFromQueue
  \/ CallReorderQueue
  \/ CallClearQueue
  \/ CallStop
  \/ CallSetTargetBpm
  \/ CallSetFixTempo
  \/ CallTogglePause
  \/ CallRewind
  \/ CallTriggerNext

Spec == Init /\ [][Next]_vars


\* Runs with more calls of fewer kinds, no callback registered and no decode
\* failure: the calls that start and trigger transitions.
InitDeep ==
  /\ phase = "idle"
  /\ activeDeck = "A"
  /\ deck = [d \in DeckIds |-> NewDeck]
  /\ queue = <<>>
  /\ activeItem = NoItem
  /\ idCounter = 0
  /\ onTrackEnded = FALSE
  /\ transitionMode \in {"mix", "cut"}
  /\ fixTempo = FALSE
  /\ targetBpm = 120
  /\ mixStartTime = 0
  /\ mixDuration = 0
  /\ pendingMixTime = NULL
  /\ forceImmediateMix = FALSE
  /\ autoAdvanceRequested = FALSE
  /\ preparingQueueItem = FALSE
  /\ isPausedByUser = FALSE
  /\ now = 0
  /\ loads = {}
  /\ timers = {}
  /\ mixTimeKind = "none"
  /\ cbCount = 0
  /\ calls = DeepCalls
  /\ lastOp = <<"init">>

NextDeep ==
  \/ Tick
  \/ Tock
  \/ LoadCompletes
  \/ TimerRuns
  \/ CallLoadAndPlay
  \/ CallMixNow
  \/ CallAddToQueue
  \/ CallClearQueue
  \/ CallTriggerNext

SpecDeep == InitDeep /\ [][NextDeep]_vars

\* Runs of the calls that edit the queue, from the same initial states.
NextQueue ==
  \/ Tick
  \/ Tock
  \/ LoadCompletes
  \/ CallLoadAndPlay
  \/ CallAddToQueue
  \/ CallCancelQueue
  \/ CallRemoveFromQueue
  \/ CallReorderQueue

SpecQueue == InitDeep /\ [][NextQueue]_vars

\* Runs in which the library also holds the track with the tempo event of 0.
\* It is started on an idle engine (loadAndPlayTrack takes the
\* playTrackImmediately branch); the tracks queued behind it are ordinary ones.
CallPlayBadTrack ==
  /\ phase = "idle"
  /\ ~DeckIsPlaying(deck[activeDeck])
  /\ [kind |-> "play", deck |-> activeDeck, item |-> [id |-> 0, track |-> BadTrack],
      cont |-> "none"] \notin loads
  /\ Call(LoadAndPlayTrack(Cur, BadTrack), <<"loadAndPlay">>)

NextBadBpm ==
  \/ Tick
  \/ Tock
  \/ LoadCompletes
  \/ CallPlayBadTrack
  \/ CallLoadAndPlay
  \/ CallMixNow
  \/ CallAddToQueue

SpecBadBpm == InitDeep /\ [][NextBadBpm]_vars

\* Runs of the calls that queue a track and change the tempo lock.
NextTempo ==
  \/ Tick
  \/ Tock
  \/ LoadCompletes
  \/ TimerRuns
  \/ CallLoadAndPlay
  \/ CallAddToQueue
  \/ CallSetTargetBpm
  \/ CallSetFixTempo

SpecTempo == InitDeep /\ [][NextTempo]_vars


\* ------------------------------------- beatScheduler.ts in floating point
\* The code computes in IEEE binary floating point, every operation rounded to
\* the nearest representable value (ties to even).  Here a positive number x
\* is the integer x * 2^FracBits and the significand has Precision bits.
Unit == 2 ^ FracBits

\* the spacing of the representable values around n / d
RECURSIVE FlQuantum(_, _, _)
FlQuantum(n, d, q) ==
  IF n < (2 ^ Precision) * q * d THEN q ELSE FlQuantum(n, d, 2 * q)

\* n / d rounded to the nearest representable value
FlRound(n, d) ==
  LET q == FlQuantum(n, d, 1)
      k == n \div (d * q)
      r == n - k * d * q
  IN IF 2 * r < d * q THEN k * q
     ELSE IF 2 * r > d * q THEN (k + 1) * q
     ELSE IF k % 2 = 0 THEN k * q ELSE (k + 1) * q

FlOfInt(i)  == i * Unit
FlDiv(a, b) == FlRound(a * Unit, b)
FlMul(a, b) == FlRound(a * b, Unit)
FlAdd(a, b) == FlRound(a + b, 1)
FlFloor(a)  == a \div Unit

\* getBarDurationAtBpm(beatMap, bpm): beatsPerBar * (60 / bpm)
GetBarDurationAtBpm(beatsPerBar, bpm) ==
  FlMul(FlOfInt(beatsPerBar), FlDiv(FlOfInt(60), FlOfInt(bpm)))

\* getNextDownbeat(beatMap, currentTimeSeconds, effectiveBpm).timeSeconds
GetNextDownbeatFl(beatsPerBar, currentTimeSeconds, bpm) ==
  LET secondsPerBeat == FlDiv(FlOfInt(60), FlOfInt(bpm))
      barDuration == FlMul(FlOfInt(beatsPerBar), secondsPerBeat)
      currentBar == FlFloor(FlDiv(currentTimeSeconds, barDuration))
      nextBar == currentBar + 1
  IN FlMul(FlOfInt(nextBar), barDuration)

\* Evaluations of the pure functions of beatScheduler.ts; lastOp records the
\* arguments and the value returned.  Positions: the bar boundaries
\* k * barDuration as the code computes them, and the middles of the bars.
BeatBpms == {60, 61, 62, 63, 120, 128}

EvalGetNextDownbeat ==
  \E bpm \in BeatBpms, k \in 0..MaxBars, middle \in BOOLEAN :
    LET barDuration == GetBarDurationAtBpm(4, bpm)
        boundary == FlMul(FlOfInt(k), barDuration)
        t == IF middle THEN FlAdd(boundary, barDuration \div 2) ELSE boundary
    IN Commit(Cur, <<"getNextDownbeat", t, bpm, GetNextDownbeatFl(4, t, bpm)>>)

\* getBpmAtTimeFromMap(beatMap, timeSeconds), the loop from event k on with
\* bpm the value held so far
RECURSIVE BpmScan(_, _, _, _)
BpmScan(events, timeSeconds, k, bpm) ==
  IF k > Len(events) THEN bpm
  ELSE IF events[k].timeSeconds <= timeSeconds
  THEN BpmScan(events, timeSeconds, k + 1, events[k].bpm)
  ELSE bpm

\* getBpmAtTimeFromMap(beatMap, timeSeconds); events = beatMap.tempoEvents
GetBpmAtTimeFromMap(events, timeSeconds) ==
  BpmScan(events, timeSeconds, 1, IF events = <<>> THEN 120 ELSE events[1].bpm)

\* getNativeBpm(beatMap)
GetNativeBpm(events) == IF events = <<>> THEN 120 ELSE events[1].bpm

\* tempo maps with at least one event, sorted ascending by timeSeconds
TempoEvents == [timeSeconds : 0..MaxEventTime, bpm : {60, 120}]
TempoMaps ==
  {m \in UNION {[1..n -> TempoEvents] : n \in 1..MaxEvents} :
     \A i \in 1..(Len(m) - 1) : m[i].timeSeconds <= m[i + 1].timeSeconds}

EvalGetBpmAtTime ==
  \E m \in TempoMaps, t \in 0..MaxEventTime :
    Commit(Cur, <<"getBpmAtTime", m, t, GetBpmAtTimeFromMap(m, t)>>)

NextBeat ==
  \/ EvalGetNextDownbeat
  \/ EvalGetBpmAtTime

SpecBeat == InitDeep /\ [][NextBeat]_vars

\* The QueueManager on its own: runs of its public methods on the manager of an
\* engine that is not playing.  lastOp records the arguments and the value
\* returned.
QmCallAdd ==
  \E t \in Tracks, position \in {"end", "next"} :
    /\ idCounter < MaxId
    /\ Call(QmAdd(Cur, t, position), <<"qm.add", position, t>>)

QmCallShift == Call(QmShift(Cur), <<"qm.shift", QmShiftResult(Cur)>>)

QmCallRemove ==
  \E id \in 1..MaxId :
    Call(QmRemove(Cur, id), <<"qm.remove", id, QmRemoveResult(Cur, id)>>)

QmCallReorder ==
  \E f \in (-1)..MaxId, t \in (-1)..MaxId :
    Call(QmReorder(Cur, f, t), <<"qm.reorder", f, t>>)

\* setActiveItem with an item read from the list (getQueue)
QmCallSetActiveItem ==
  \E i \in 1..Len(queue) :
    Call(QmSetActiveItem(Cur, queue[i]), <<"qm.setActiveItem">>)

QmCallClear == Call(QmClear(Cur), <<"qm.clear">>)

NextQm ==
  \/ QmCallAdd
  \/ QmCallShift
  \/ QmCallRemove
  \/ QmCallReorder
  \/ QmCallSetActiveItem
  \/ QmCallClear

SpecQm == InitDeep /\ [][NextQm]_vars

\* Runs of the calls that pause and resume around a transition.
NextPause ==
  \/ Tick
  \/ Tock
  \/ LoadCompletes
  \/ TimerRuns
  \/ CallLoadAndPlay
  \/ CallMixNow
  \/ CallTogglePause
  \/ CallTriggerNext

SpecPause == InitDeep /\ [][NextPause]_vars

\* Runs of the calls that move an item between the pending list, the active
\* slot and a load: immediate requests (which put the interrupted item back),
\* rewind (which prepares the slot's item again), and the calls that empty the
\* slot or let a load complete late.
NextItems ==
  \/ Tick
  \/ Tock
  \/ LoadCompletes
  \/ TimerRuns
  \/ CallLoadAndPlay
  \/ CallMixNow
  \/ CallRewind
  \/ CallClearQueue
  \/ CallCancelQueue

SpecItems == InitDeep /\ [][NextItems]_vars

\* Runs checked for progress.  The animation-frame loop never stops
\* (startScheduler, lines 160-165), the audio clock advances and every
\* loadTrack promise settles: each of these steps is taken when it stays
\* possible.  The calls are those that start a track, add to the queue and
\* clear it; transitions are crossfades (the default mode), so that no
\* setTimeout callback is ever pending.
InitLive ==
  /\ phase = "idle"
  /\ activeDeck = "A"
  /\ deck = [d \in DeckIds |-> NewDeck]
  /\ queue = <<>>
  /\ activeItem = NoItem
  /\ idCounter = 0
  /\ onTrackEnded = FALSE
  /\ transitionMode = "mix"
  /\ fixTempo = FALSE
  /\ targetBpm = 120
  /\ mixStartTime = 0
  /\ mixDuration = 0
  /\ pendingMixTime = NULL
  /\ forceImmediateMix = FALSE
  /\ autoAdvanceRequested = FALSE
  /\ preparingQueueItem = FALSE
  /\ isPausedByUser = FALSE
  /\ now = 0
  /\ loads = {}
  /\ timers = {}
  /\ mixTimeKind = "none"
  /\ cbCount = 0
  /\ calls = LiveCalls
  /\ lastOp = <<"init">>

\* One animation frame with no callback registered: schedulerTick's three
\* blocks in the order of the code, each applied to the state the one before
\* it left.
TickLive ==
  /\ ~TickSkips(Cur)
  /\ \E s0 \in {Cur} :
       \E s1 \in {TickAutoAdvance(s0, 0)} :
         \E s2 \in {TickMixing(s1, s0.activeDeck, Other(s0.activeDeck))} :
           \E s3 \in {TickQueued(s2, s0.activeDeck)} :
             Commit(s3, <<"tick">>)

NextLive ==
  \/ TickLive
  \/ Tock
  \/ LoadCompletes
  \/ CallLoadAndPlay
  \/ CallAddToQueue
  \/ CallClearQueue

\* the steps the program takes by itself
Progress ==
  \/ Tock
  \/ LoadCompletes
  \/ TickLive

SpecLive == InitLive /\ [][NextLive]_vars /\ WF_vars(Progress)

\* ----------------------------------------------------------------- claims
PrepareLoads(ls) == {l \in ls : l.kind = "prepare"}
IsTick == lastOp' = <<"tick">>

\* C1: at any moment at most one load started by prepareQueueItem is in flight
\* (a prepareQueueItem that begins while an earlier one has not settled starts
\* no load).
C1_OnePrepareInFlight == Cardinality(PrepareLoads(loads)) <= 1

\* C2: phase becomes queued only from playing, and only when a prepared item's
\* load completes; becomes mixing only from queued; leaves mixing only to
\* playing (mix completion in a tick, or rewind) or to idle (stop).
C2_PhaseMachine ==
  [][ /\ (phase' = "queued" /\ phase # "queued")
         => (phase = "playing" /\ lastOp' = <<"loaded", "prepare">>)
      /\ (phase' = "mixing" /\ phase # "mixing") => phase = "queued"
      /\ (phase = "mixing" /\ phase' # "mixing")
         => \/ phase' = "playing" /\ lastOp' \in {<<"tick">>, <<"rewind">>}
            \/ phase' = "idle" /\ lastOp' = <<"stop">> ]_vars

\* C3: a tick in phase mixing that observes progress >= 1 finalizes within the
\* tick: outgoing deck stopped, incoming deck at full volume and playing, the
\* active role swapped, the active slot empty, phase playing, and the front
\* pending item (if any) dequeued with its load into the new inactive deck
\* started.
C3_TickFinalizes ==
  [][ (/\ IsTick
       /\ ~isPausedByUser
       /\ phase = "mixing"
       /\ mixDuration > 0
       /\ now - mixStartTime >= mixDuration)
      => LET out == activeDeck
             inc == Other(activeDeck)
         IN /\ ~DeckIsPlaying(deck'[out])
            /\ deck'[out].shifter = 0
            /\ deck'[inc].volume = 1000
            /\ deck'[inc].state = "playing"
            /\ activeDeck' = inc
            /\ activeItem' = NoItem
            /\ phase' = "playing"
            /\ queue # <<>> =>
                 /\ queue' = Tail(queue)
                 /\ \E l \in PrepareLoads(loads') \ loads :
                      l.item = Head(queue) /\ l.deck = out ]_vars

\* C4: while phase is mixing, enqueue, loadAndPlay, mixNow and triggerNext only
\* queue the track: the incoming deck is left as it is, the item being mixed in
\* stays in the active slot, the mix goes on and no load is started.
C4_MixNotDisturbed ==
  [][ (/\ phase = "mixing"
       /\ lastOp' \in {<<"enqueue">>, <<"loadAndPlay">>, <<"mixNow">>, <<"triggerNext">>})
      => /\ deck'[Other(activeDeck)] = deck[Other(activeDeck)]
         /\ activeItem' = activeItem
         /\ phase' = "mixing"
         /\ loads' = loads ]_vars

\* C5: when the callback a cut left behind runs, the deck it stops is not
\* playing as the active deck, nor as the incoming deck of a running mix.
C5_CutTimerSafe ==
  [][ \A d \in DeckIds :
        (lastOp' = <<"timer", "cutStop", d>> /\ deck[d].shifter # 0)
        => /\ d # activeDeck
           /\ phase # "mixing" ]_vars

\* C6: while isPausedByUser holds, a scheduler tick changes nothing.
C6_PausedTickNoop ==
  [][ (IsTick /\ isPausedByUser) => UNCHANGED progVars ]_vars

C6_Witness ==
  /\ lastOp = <<"tick">>
  /\ isPausedByUser
  /\ phase = "mixing"
  /\ mixDuration > 0
  /\ now - mixStartTime >= mixDuration

\* C7: with a callback registered, a tick that finds the active track playing
\* with the pending list and the active slot empty (and no preparation in
\* flight) leaves the callback invoked exactly once for that track.
C7_CallbackOncePerTrack ==
  [][ (/\ IsTick
       /\ ~isPausedByUser
       /\ onTrackEnded
       /\ phase = "playing"
       /\ DeckIsPlaying(deck[activeDeck])
       /\ deck[activeDeck].shifter # 0
       /\ queue = <<>>
       /\ activeItem = NoItem
       /\ ~preparingQueueItem)
      => cbCount' = 1 ]_vars

TickGoesIdle == IsTick /\ phase # "idle" /\ phase' = "idle"

\* C8, as claimed: a tick (engine not paused) that finds phase playing, the
\* pending list and the active slot empty and the active deck finished sets
\* phase to idle; a tick never sets phase to idle while an item is pending or
\* prepared.
C8_IdleWhenFinished ==
  [][ /\ (/\ IsTick
          /\ ~isPausedByUser
          /\ phase = "playing"
          /\ queue = <<>>
          /\ activeItem = NoItem
          /\ DeckIsFinished(deck[activeDeck], now))
         => phase' = "idle"
      /\ TickGoesIdle => (queue = <<>> /\ activeItem = NoItem) ]_vars

\* C8, amended: the same, provided no preparation is in flight
\* (preparingQueueItem is false) when the tick runs.
C8_IdleWhenFinishedNotPreparing ==
  [][ /\ (/\ IsTick
          /\ ~isPausedByUser
          /\ phase = "playing"
          /\ queue = <<>>
          /\ activeItem = NoItem
          /\ ~preparingQueueItem
          /\ DeckIsFinished(deck[activeDeck], now))
         => phase' = "idle"
      /\ TickGoesIdle => (queue = <<>> /\ activeItem = NoItem) ]_vars

C8_Witness ==
  /\ lastOp = <<"tick">>
  /\ phase = "idle"
  /\ DeckIsFinished(deck[activeDeck], now)

\* C9: loadAndPlay in phase idle starts the track on the active deck (it is not
\* prepared as a queued item), and when its load resolves phase is playing and
\* the active deck plays the track at native rate.
C9_IdleLoadAndPlay ==
  [][ /\ (phase = "idle" /\ lastOp' = <<"loadAndPlay">>)
         => \E l \in loads' \ loads : l.kind = "play" /\ l.deck = activeDeck
      /\ \A l \in loads \ loads' :
           (lastOp' = <<"loaded", "play">>)
           => /\ phase' = "playing"
              /\ l.deck = activeDeck'
              /\ deck'[l.deck].track = l.item.track
              /\ deck'[l.deck].shifter = l.item.track
              /\ deck'[l.deck].playbackRate = 2 ]_vars

\* C10: mixNow while the active deck plays and item X is in the active slot
\* puts X at the front of the pending list, keeps the other pending items in
\* order, and resolves with a new item for the requested track in the active
\* slot, marked for an immediate mix.
C10_MixNowPreserves ==
  [][ /\ (/\ lastOp' = <<"mixNow">>
          /\ DeckIsPlaying(deck[activeDeck])
          /\ activeItem # NoItem)
         => /\ queue' = <<activeItem>> \o queue
            /\ \/ \E l \in PrepareLoads(loads') \ loads :
                    l.cont = "force" /\ l.item.id = idCounter'
               \/ activeItem'.id = idCounter' /\ forceImmediateMix'
      /\ \A l \in PrepareLoads(loads) \ loads' :
           (lastOp' = <<"loaded", "prepare">> /\ l.cont = "force")
           => activeItem' = l.item /\ forceImmediateMix' ]_vars

\* C11: triggerNext in phase queued with a prepared item starts the transition
\* within the call (mix mode: phase mixing; cut mode: the active role swaps and
\* phase is playing); with nothing prepared and a pending item it dequeues the
\* front item, starts its load and marks it for the next downbeat; with nothing
\* prepared and nothing pending it changes nothing.
C11_TriggerNext ==
  [][ lastOp' = <<"triggerNext">> =>
        /\ (phase = "queued" /\ activeItem # NoItem) =>
             IF transitionMode = "cut"
             THEN activeDeck' = Other(activeDeck) /\ phase' = "playing"
             ELSE phase' = "mixing" /\ activeDeck' = activeDeck
        /\ (activeItem = NoItem /\ queue # <<>>) =>
             /\ queue' = Tail(queue)
             /\ forceImmediateMix'
             /\ \E l \in PrepareLoads(loads') \ loads :
                  l.item = Head(queue) /\ l.deck = Other(activeDeck)
        /\ (activeItem = NoItem /\ queue = <<>>) =>
             <<phase, activeDeck, deck, queue, activeItem, idCounter, mixStartTime,
               mixDuration, pendingMixTime, forceImmediateMix, autoAdvanceRequested,
               preparingQueueItem, isPausedByUser, loads, timers>>' =
             <<phase, activeDeck, deck, queue, activeItem, idCounter, mixStartTime,
               mixDuration, pendingMixTime, forceImmediateMix, autoAdvanceRequested,
               preparingQueueItem, isPausedByUser, loads, timers>> ]_vars

\* C12: rewind with a track loaded on the active deck restarts it: the active
\* deck plays from position 0 at full volume, phase is playing, isPausedByUser
\* is false, the active role and the pending list are unchanged; a mix in
\* progress is cancelled with the incoming deck stopped, and an item that was
\* in the active slot is being loaded again into the inactive deck.
C12_Rewind ==
  [][ (/\ lastOp' = <<"rewind">>
       /\ deck[activeDeck].track # 0
       /\ deck[activeDeck].audioBuffer # 0)
      => LET a == activeDeck
             i == Other(activeDeck)
         IN /\ DeckIsPlaying(deck'[a])
            /\ deck'[a].shifter # 0
            /\ DeckGetCurrentTime(deck'[a], now') = 0
            /\ deck'[a].volume = 1000
            /\ phase' = "playing"
            /\ ~isPausedByUser'
            /\ activeDeck' = a
            /\ queue' = queue
            /\ phase = "mixing" =>
                 /\ deck'[i].shifter = 0
                 /\ ~DeckIsPlaying(deck'[i])
                 /\ mixDuration' = 0
            /\ activeItem # NoItem =>
                 /\ activeItem' = NoItem
                 /\ \E l \in PrepareLoads(loads') : l.item = activeItem /\ l.deck = i ]_vars

\* a rewind that cancelled a running mix and reloads the item that was mixed in
C12_Witness ==
  /\ lastOp = <<"rewind">>
  /\ phase = "playing"
  /\ now > 0
  /\ deck[activeDeck].shifter # 0
  /\ deck[activeDeck].playStartAudioTime = now
  /\ mixStartTime > 0
  /\ mixDuration = 0
  /\ deck[Other(activeDeck)].state = "loading"
  /\ \E l \in PrepareLoads(loads) : l.deck = Other(activeDeck) /\ l.item.id # 0

\* C13: after stop(), from any state, phase is idle, both decks are idle at
\* position 0, the pending list and the active slot are empty, no mix deadline
\* is scheduled, forceImmediateMix and autoAdvanceRequested are cleared and
\* isPausedByUser is false.
C13_Stop ==
  [][ lastOp' = <<"stop">> =>
        /\ phase' = "idle"
        /\ \A d \in DeckIds :
             /\ deck'[d].state = "idle"
             /\ deck'[d].shifter = 0
             /\ DeckGetCurrentTime(deck'[d], now') = 0
        /\ queue' = <<>>
        /\ activeItem' = NoItem
        /\ pendingMixTime' = NULL
        /\ ~forceImmediateMix'
        /\ ~autoAdvanceRequested'
        /\ ~isPausedByUser' ]_vars

\* a stop that interrupted a running mix
C13_Witness ==
  /\ lastOp = <<"stop">>
  /\ phase = "idle"
  /\ mixStartTime > 0
  /\ \A d \in DeckIds : deck[d].audioBuffer # 0 /\ deck[d].volume < 1000

\* C14: cancelQueue from phase queued or playing leaves phase playing and the
\* active slot empty; a second call right after the first changes no
\* controller or deck state.
C14_CancelQueueIdempotent ==
  [][ \A again \in BOOLEAN :
        lastOp' = <<"cancelQueue", again>> =>
          /\ phase \in {"queued", "playing"} =>
               phase' = "playing" /\ activeItem' = NoItem
          /\ (again /\ phase = "playing") =>
               <<phase, activeDeck, deck, queue, activeItem, idCounter, targetBpm,
                 mixStartTime, mixDuration, pendingMixTime, forceImmediateMix,
                 autoAdvanceRequested, preparingQueueItem, isPausedByUser, now,
                 loads, timers>>' =
               <<phase, activeDeck, deck, queue, activeItem, idCounter, targetBpm,
                 mixStartTime, mixDuration, pendingMixTime, forceImmediateMix,
                 autoAdvanceRequested, preparingQueueItem, isPausedByUser, now,
                 loads, timers>> ]_vars

\* the second of two calls in a row, the first of which cancelled a prepared
\* item whose mix was already scheduled
C14_Witness ==
  /\ lastOp = <<"cancelQueue", TRUE>>
  /\ phase = "playing"
  /\ activeItem = NoItem
  /\ pendingMixTime # NULL
  /\ deck[Other(activeDeck)].audioBuffer # 0

\* C15: when a deck's load fails to decode, the deck is left as it was before
\* the load: its state is idle (not stuck in loading) and its track is still
\* the one whose audio it holds; a failed load into the inactive deck leaves
\* the active deck untouched.
C15_LoadFailureRestoresDeck ==
  [][ \A k \in {"play", "prepare"} :
        lastOp' = <<"loadFailed", k>> =>
          \A l \in loads \ loads' :
            /\ deck'[l.deck].state = "idle"
            /\ deck'[l.deck].track = deck'[l.deck].audioBuffer
            /\ l.deck # activeDeck => deck'[activeDeck] = deck[activeDeck] ]_vars

\* The tick about to be taken reaches its call of startMix (phase queued, the
\* active deck playing, the deadline reached) while no item is in the active
\* slot.
StartMixWithoutItem ==
  /\ ~TickSkips(Cur)
  /\ phase = "queued"
  /\ DeckIsPlaying(deck[activeDeck])
  /\ activeItem = NoItem
  /\ LET due == IF pendingMixTime = NULL THEN ComputeMixTime(Cur, activeDeck)
                ELSE pendingMixTime
     IN due # NULL /\ due # NaN /\ now >= due

\* C16: startMix invoked while the active slot is empty changes nothing: the
\* phase, the active deck and both decks' state, volume and rate are as
\* before, on every tick that invokes it.
C16_StartMixAbortsHarmlessly ==
  [][ (lastOp' = <<"tick">> /\ StartMixWithoutItem) =>
        /\ phase' = phase
        /\ activeDeck' = activeDeck
        /\ \A d \in DeckIds :
             /\ deck'[d].state = deck[d].state
             /\ deck'[d].volume = deck[d].volume
             /\ deck'[d].playbackRate = deck[d].playbackRate
             /\ deck'[d].shifter = deck[d].shifter ]_vars

\* a tick has just invoked startMix with the slot empty: the deadline was
\* consumed and the engine is still queued on the same playing deck
C16_Witness ==
  /\ lastOp = <<"tick">>
  /\ phase = "queued"
  /\ activeItem = NoItem
  /\ pendingMixTime = NULL
  /\ ~forceImmediateMix
  /\ ~isPausedByUser
  /\ DeckIsPlaying(deck[activeDeck])
  /\ now > 0

\* C17: a tick that has to compute the deadline in phase queued while the
\* active track's duration or BPM is not a positive finite number leaves the
\* deadline unset (to be computed by a later tick), with and without
\* forceImmediateMix; it never stores NaN or Infinity.
C17_InvalidTempoNotScheduled ==
  [][ ( /\ lastOp' = <<"tick">>
        /\ ~TickSkips(Cur)
        /\ phase = "queued"
        /\ DeckIsPlaying(deck[activeDeck])
        /\ pendingMixTime = NULL
        /\ \/ DeckGetDuration(deck[activeDeck]) <= 0
           \/ DeckGetNativeBpm(deck[activeDeck]) \in {NaN, Infinity}
           \/ DeckGetNativeBpm(deck[activeDeck]) <= 0 )
      => pendingMixTime' = NULL ]_vars

\* C18: the position of a deck that keeps playing has no jump across a change
\* of its playback rate: read right after setPlaybackRate (here the one made
\* by setFixTempo on the active deck) it equals the position read right
\* before, whatever the clock value play() anchored at.
C18_RateChangeContinuous ==
  [][ ( /\ lastOp' = <<"setFixTempo">>
        /\ DeckIsPlaying(deck[activeDeck])
        /\ deck[activeDeck].shifter # 0 )
      => DeckGetCurrentTime(deck'[activeDeck], now')
           = DeckGetCurrentTime(deck[activeDeck], now) ]_vars

\* C19: a deadline computed in normal mode while the active position was
\* before duration - 2 bars starts the transition when the active position is
\* duration - 2 bars (bars at the native BPM): the tick taken at the deadline
\* finds the active deck at that position, whatever its rate and whatever was
\* done to the rate since the deadline was computed.
C19_MixStartsTwoBarsBeforeEnd ==
  [][ ( /\ lastOp' = <<"tick">>
        /\ ~TickSkips(Cur)
        /\ phase = "queued"
        /\ DeckIsPlaying(deck[activeDeck])
        /\ activeItem # NoItem
        /\ mixTimeKind = "normal"
        /\ pendingMixTime # NULL
        /\ now = pendingMixTime )
      => /\ phase' # "queued"
         /\ DeckGetCurrentTime(deck[activeDeck], now)
              = Max(0, DeckGetDuration(deck[activeDeck])
                         - 2 * BarDuration(DeckGetNativeBpm(deck[activeDeck]))) ]_vars

\* C20: a deadline computed in immediate mode, or in normal mode once the
\* position has passed duration - 2 bars, targets the next downbeat of the
\* active track: the position the active deck will have at the deadline is
\* the smallest multiple of the bar length at the native BPM that is greater
\* than the current position, at every playback rate.  (Positions are
\* compared doubled, the rate being stored doubled.)
C20_NextDownbeatInTrackTime ==
  [][ ( /\ lastOp' = <<"tick">>
        /\ ~TickSkips(Cur)
        /\ phase = "queued"
        /\ DeckIsPlaying(deck[activeDeck])
        /\ deck[activeDeck].track # 0
        /\ pendingMixTime = NULL
        /\ MixTimeKind(Cur, activeDeck) \in {"immediate", "fallback"}
        /\ pendingMixTime' # NULL )
      => LET dk == deck[activeDeck]
             currentTime == DeckGetCurrentTime(dk, now)
             bar == BarDuration(DeckGetNativeBpm(dk))
         IN 2 * currentTime + (pendingMixTime' - now) * dk.playbackRate
              = 2 * (((currentTime \div bar) + 1) * bar) ]_vars

\* C21: a cut (the active role swaps in cut mode) starts the incoming deck
\* tempo-matched: with the tempo lock on, its effective BPM equals the
\* effective BPM the outgoing deck had at the cut; with the lock off, its rate
\* is 1 (stored doubled).
C21_CutTempoMatched ==
  [][ (transitionMode = "cut" /\ activeDeck' # activeDeck) =>
        IF fixTempo
        THEN DeckGetEffectiveBpm(deck'[activeDeck'])
               = DeckGetEffectiveBpm(deck[activeDeck])
        ELSE deck'[activeDeck'].playbackRate = 2 ]_vars

\* C22: the pending list is FIFO with insert-next: add at "end" appends the new
\* item, add at "next" puts it in front, and shift returns and removes the
\* first item (null, the list unchanged, when the list is empty).
C22_FifoInsertNext ==
  [][ /\ \A t \in Tracks :
           LET item == [id |-> idCounter + 1, track |-> t] IN
           /\ lastOp' = <<"qm.add", "end", t>> => queue' = queue \o <<item>>
           /\ lastOp' = <<"qm.add", "next", t>> => queue' = <<item>> \o queue
      /\ (Len(lastOp') = 2 /\ lastOp'[1] = "qm.shift") =>
           IF queue = <<>>
           THEN lastOp'[2] = NoItem /\ queue' = <<>>
           ELSE lastOp'[2] = queue[1] /\ <<lastOp'[2]>> \o queue' = queue ]_vars

\* T1 (end), T2 (end), T3 (next), then two shifts: the second returns T1 after
\* the first returned T3 and left T1, T2
C22_Witness ==
  /\ Len(lastOp) = 2
  /\ lastOp[1] = "qm.shift"
  /\ lastOp[2].id = 1
  /\ Len(queue) = 1
  /\ queue[1].id = 2
  /\ idCounter = 3
  /\ calls = DeepCalls - 5

\* the sequence q without its k-th element (k from 1)
WithoutIndex(q, k) == SubSeq(q, 1, k - 1) \o SubSeq(q, k + 1, Len(q))

\* C23: reorder(from, to) with both indices in range and different puts the
\* item of index from at index to and keeps the other items in their relative
\* order; with an index out of range or equal indices it leaves the list
\* unchanged; in every case the list holds the same items as before.
C23_ReorderStableMove ==
  [][ \A f \in (-1)..MaxId, t \in (-1)..MaxId :
        lastOp' = <<"qm.reorder", f, t>> =>
          /\ IF f >= 0 /\ f < Len(queue) /\ t >= 0 /\ t < Len(queue) /\ f # t
             THEN /\ Len(queue') = Len(queue)
                  /\ queue'[t + 1] = queue[f + 1]
                  /\ WithoutIndex(queue', t + 1) = WithoutIndex(queue, f + 1)
             ELSE queue' = queue
          /\ Len(queue') = Len(queue)
          /\ {queue'[i] : i \in 1..Len(queue')} = {queue[i] : i \in 1..Len(queue)} ]_vars

\* reorder(0, 2) on a list of three has just given [B, C, A]
C23_Witness ==
  /\ lastOp = <<"qm.reorder", 0, 2>>
  /\ Len(queue) = 3
  /\ <<queue[1].id, queue[2].id, queue[3].id>> = <<2, 3, 1>>
  /\ calls = DeepCalls - 4

\* C24: remove and reorder leave the active slot as it is.  remove(itemId)
\* deletes exactly the pending item with that id and returns it; when no
\* pending item has that id (even if the item in the active slot has it) it
\* returns null and leaves the list unchanged.
C24_RemoveReorderKeepActiveSlot ==
  [][ /\ (Len(lastOp') = 3 /\ lastOp'[1] \in {"qm.remove", "qm.reorder"}) =>
           activeItem' = activeItem
      /\ (Len(lastOp') = 3 /\ lastOp'[1] = "qm.remove") =>
           LET id == lastOp'[2]
               returned == lastOp'[3]
           IN IF \E i \in 1..Len(queue) : queue[i].id = id
              THEN /\ returned.id = id
                   /\ \E k \in 1..Len(queue) :
                        queue[k] = returned /\ queue' = WithoutIndex(queue, k)
                   /\ \A i \in 1..Len(queue') : queue'[i].id # id
              ELSE returned = NoItem /\ queue' = queue ]_vars

\* remove has just been called with the id of the item in the active slot
\* while no pending item had that id
C24_Witness ==
  /\ Len(lastOp) = 3
  /\ lastOp[1] = "qm.remove"
  /\ lastOp[3] = NoItem
  /\ activeItem # NoItem
  /\ activeItem.id = lastOp[2]
  /\ queue # <<>>

\* the queue items the engine holds: pending, in the active slot, or being
\* loaded by prepareQueueItem
HeldItems(q, slot, ls) ==
  {q[i] : i \in 1..Len(q)} \cup ({slot} \ {NoItem}) \cup {l.item : l \in PrepareLoads(ls)}

\* C25: item ids are unique and strictly increasing: the counter never goes
\* back (not on clearQueue, not on stop), every item that appears gets an id
\* greater than every id issued before, and no two different items held at the
\* same time carry the same id.
C25_IdsUniqueIncreasing ==
  [][ LET before == HeldItems(queue, activeItem, loads)
          after  == HeldItems(queue', activeItem', loads')
      IN /\ idCounter' >= idCounter
         /\ \A x \in after \ before : x.id > idCounter /\ x.id <= idCounter'
         /\ \A x \in after, y \in after : x.id = y.id => x = y ]_vars

\* stop has just run on an engine that had issued two ids
C25_Witness ==
  /\ lastOp = <<"stop">>
  /\ idCounter = 2
  /\ queue = <<>>
  /\ activeItem = NoItem

\* C26: getNextDownbeat is strictly next: the time returned is greater than
\* the position given, it is a whole multiple of the bar duration, and no bar
\* boundary lies strictly between the position and it; at a bar boundary the
\* following boundary is returned, never the position itself.
C26_NextDownbeatStrictlyNext ==
  [][ \A bpm \in BeatBpms :
        (Len(lastOp') = 4 /\ lastOp'[1] = "getNextDownbeat" /\ lastOp'[3] = bpm) =>
          LET t == lastOp'[2]
              returned == lastOp'[4]
              barDuration == GetBarDurationAtBpm(4, bpm)
              Boundary(n) == FlMul(FlOfInt(n), barDuration)
          IN /\ returned > t
             /\ \E n \in 1..(MaxBars + 2) : returned = Boundary(n)
             /\ ~ \E n \in 0..(MaxBars + 2) : t < Boundary(n) /\ Boundary(n) < returned ]_vars

\* C27: for a tempo map with at least one event, sorted ascending by time, the
\* BPM at time 0 is the BPM of the first event, which is what getNativeBpm
\* returns.
C27_BpmAtZeroIsFirstEvent ==
  [][ \A m \in TempoMaps :
        (Len(lastOp') = 4 /\ lastOp'[1] = "getBpmAtTime" /\ lastOp'[2] = m
           /\ lastOp'[3] = 0) =>
          /\ lastOp'[4] = m[1].bpm
          /\ lastOp'[4] = GetNativeBpm(m) ]_vars

\* progress of the running mix in quarters, as the tick about to be taken
\* computes it
MixQuarter == Min((4 * (now - mixStartTime)) \div mixDuration, 4)

\* C28: the crossfade a mixing tick applies is equal-power: at progress 0 the
\* volumes are (1, 0), at progress 1 the curve gives (0, 1), and the squares
\* of the outgoing and incoming volumes add up to 1 (volumes in thousandths,
\* so to 1000000 within the rounding of the table) at every progress.
C28_EqualPowerCrossfade ==
  [][ (lastOp' = <<"tick">> /\ ~TickSkips(Cur) /\ phase = "mixing" /\ mixDuration > 0) =>
        LET out == deck'[activeDeck].volume
            inc == deck'[Other(activeDeck)].volume
        IN IF MixQuarter < 4
           THEN /\ out = CosQ(MixQuarter) /\ inc = SinQ(MixQuarter)
                /\ MixQuarter = 0 => (out = 1000 /\ inc = 0)
                /\ out * out + inc * inc >= 999000
                /\ out * out + inc * inc <= 1001000
           ELSE CosQ(4) = 0 /\ SinQ(4) = 1000 ]_vars

\* a tick has just applied the crossfade a quarter of the way through a mix
C28_Witness ==
  /\ lastOp = <<"tick">>
  /\ phase = "mixing"
  /\ now > mixStartTime
  /\ mixDuration = 4 * (now - mixStartTime)
  /\ deck[activeDeck].volume = 924
  /\ deck[Other(activeDeck)].volume = 383

\* C29: whenever the phase is queued, the active slot holds an item and the
\* inactive deck has finished loading that item's track: it is not loading and
\* its track and decoded audio are the item's.
C29_QueuedMeansPrepared ==
  phase = "queued" =>
    /\ activeItem # NoItem
    /\ deck[Other(activeDeck)].state # "loading"
    /\ deck[Other(activeDeck)].track = activeItem.track
    /\ deck[Other(activeDeck)].audioBuffer = activeItem.track

\* C30: no queue item is silently lost.  Except on stop, clearQueue,
\* cancelQueue and removeFromQueue (and a failed decode), every item the
\* engine holds (pending, being loaded or in the active slot) is still held
\* after the step, unless it is the active-slot item that the step's
\* transition has just made the playing track; and every item the step
\* creates is held after it.
C30_NoItemLost ==
  [][ lastOp'[1] \notin {"stop", "clearQueue", "cancelQueue", "remove", "loadFailed"} =>
        LET before == HeldItems(queue, activeItem, loads)
            after  == HeldItems(queue', activeItem', loads')
        IN /\ \A x \in before :
                \/ x \in after
                \/ x = activeItem /\ activeDeck' # activeDeck
           /\ \A n \in (idCounter + 1)..idCounter' : \E x \in after : x.id = n ]_vars


\* the queue item with this id is the track the active deck plays: it is no
\* longer pending, prepared or being loaded
ItemPlays(id) ==
  /\ \A i \in 1..Len(queue) : queue[i].id # id
  /\ activeItem.id # id
  /\ \A l \in PrepareLoads(loads) : l.item.id # id
  /\ DeckIsPlaying(deck[activeDeck])

\* the clock of the run has reached its bound before the active track ended
ClockRanOut == now = MaxNow /\ ~DeckIsFinished(deck[activeDeck], now)

\* C31: pending items are eventually played.  From a state with phase playing,
\* the engine not paused, the pending list not empty, the active slot empty
\* and no load in flight, with ticks continuing and no further call of the
\* user, the front pending item is eventually dequeued, prepared and
\* transitioned to: the active track does not play to its end with the item
\* still pending.  (The clause ClockRanOut sets aside the runs whose clock
\* reaches its bound before the active track ends.)
C31_PendingEventuallyPlayed ==
  \A id \in 1..MaxId :
    ( /\ phase = "playing"
      /\ ~isPausedByUser
      /\ queue # <<>>
      /\ Head(queue).id = id
      /\ activeItem = NoItem
      /\ loads = {}
      /\ ~preparingQueueItem
      /\ calls = 0 )
    ~> (ItemPlays(id) \/ ClockRanOut)

\* C32: stop() and clearQueue() cancel a pending preparation: when a load
\* that prepareQueueItem had in flight at the call completes after it (here as
\* the very next step, before any other call), it has no effect on the phase
\* (idle after stop, as clearQueue left it otherwise) and the active slot stays
\* empty.
C32_StopClearCancelPreparation ==
  [][ ( /\ lastOp \in {<<"stop">>, <<"clearQueue">>}
        /\ lastOp' = <<"loaded", "prepare">> )
      => /\ phase' = phase
         /\ lastOp = <<"stop">> => phase' = "idle"
         /\ activeItem' = NoItem ]_vars

\* C33: the engine-level pause flag and the decks agree: whenever no callback
\* of a pause fade is pending, isPausedByUser holds if and only if the active
\* deck is in state paused.
C33_PauseFlagAgrees ==
  ({tm \in timers : tm.kind = "pause"} = {})
    => (isPausedByUser <=> DeckIsPaused(deck[activeDeck]))

\* C34: while isPausedByUser holds no transition begins, whatever the entry
\* point (tick, triggerNext, mixNow, loadAndPlay, a load completion): unless
\* the step is the resume, a stop or a rewind, the inactive deck is not
\* started, the phase does not become mixing and the active role does not
\* swap.
C34_NoTransitionWhilePaused ==
  [][ ( /\ isPausedByUser
        /\ lastOp' \notin {<<"togglePause">>, <<"stop">>, <<"rewind">>} )
      => /\ (phase' = "mixing" => phase = "mixing")
         /\ activeDeck' = activeDeck
         /\ DeckIsPlaying(deck'[Other(activeDeck)])
              => DeckIsPlaying(deck[Other(activeDeck)]) ]_vars

\* the clock of the run has reached its bound before the running mix could end
ClockRanOutInMix ==
  now = MaxNow /\ phase = "mixing" /\ now - mixStartTime < mixDuration

\* C35: a mix that has started completes.  From a state with phase mixing,
\* the engine not paused and no further call of the user, with ticks
\* continuing the phase eventually becomes playing with the active role
\* swapped to the incoming deck; and a load completion or timer callback that
\* occurs during the mix leaves it running: the phase is still mixing, the mix
\* has the same start and length and the incoming deck goes on playing.  (The
\* clause ClockRanOutInMix sets aside the runs whose clock reaches its bound
\* before the end of the mix.)
C35_MixCompletes ==
  /\ \A d \in DeckIds :
       (phase = "mixing" /\ activeDeck = d /\ ~isPausedByUser /\ calls = 0)
       ~> ((phase = "playing" /\ activeDeck = Other(d)) \/ ClockRanOutInMix)
  /\ [][ (phase = "mixing" /\ ~isPausedByUser /\ lastOp'[1] \in {"loaded", "timer"})
          => /\ phase' = "mixing"
             /\ mixStartTime' = mixStartTime
             /\ mixDuration' = mixDuration
             /\ DeckIsPlaying(deck'[Other(activeDeck)]) ]_vars

\* C36: a pause during a mix freezes the mix.  On the first tick after the
\* resume the progress is the one the mix had when the pause took effect,
\* which is the part of the mix the incoming deck has played (it started at
\* position 0 with the mix and resumes where it was paused): the tick sets
\* the outgoing volume for that progress, and it completes the mix only if
\* that part is the whole mix.
C36_PauseFreezesMix ==
  [][ ( /\ lastOp = <<"togglePause">>
        /\ ~isPausedByUser
        /\ phase = "mixing"
        /\ mixDuration > 0
        /\ DeckIsPlaying(deck[activeDeck])
        /\ DeckIsPlaying(deck[Other(activeDeck)])
        /\ deck[Other(activeDeck)].playbackRate = 2
        /\ lastOp' = <<"tick">> )
      => LET played == DeckGetCurrentTime(deck[Other(activeDeck)], now)
         IN IF played >= mixDuration
            THEN phase' = "playing" /\ activeDeck' = Other(activeDeck)
            ELSE /\ phase' = "mixing"
                 /\ deck'[activeDeck].volume = CosQ((4 * played) \div mixDuration)
                 /\ deck'[Other(activeDeck)].volume = SinQ((4 * played) \div mixDuration) ]_vars

\* C37: the immediate-mix request applies only to the item it was raised for.
\* When the load that an enqueue has just started for the item it created
\* (prepared by advanceQueue, not triggered by the user) completes, the item
\* is in the active slot with forceImmediateMix clear, so that the tick
\* schedules it two bars before the end of the active track and not at the
\* next downbeat, whatever immediate request was cancelled or rejected before.
C37_ImmediateOnlyForItsItem ==
  [][ \A l \in PrepareLoads(loads) \ loads' :
        ( /\ lastOp = <<"enqueue">>
          /\ l.item.id = idCounter
          /\ l.cont = "none"
          /\ lastOp' = <<"loaded", "prepare">> )
        => /\ activeItem' = l.item
           /\ ~forceImmediateMix' ]_vars

\* The step about to be taken executes a cut: in cut mode, with an item
\* prepared, triggerNext is called or a tick finds the deadline reached.
CutDue ==
  /\ transitionMode = "cut"
  /\ phase = "queued"
  /\ activeItem # NoItem
  /\ \/ lastOp' = <<"triggerNext">>
     \/ /\ lastOp' = <<"tick">>
        /\ ~TickSkips(Cur)
        /\ DeckIsPlaying(deck[activeDeck])
        /\ LET due == IF pendingMixTime = NULL THEN ComputeMixTime(Cur, activeDeck)
                      ELSE pendingMixTime
           IN due # NULL /\ due # NaN /\ now >= due

C39_MixTempoMatched ==
  [][ /\ (phase' = "mixing" /\ lastOp' \in {<<"tick">>, <<"triggerNext">>}) =>
           DeckGetEffectiveBpm(deck'[activeDeck'])
             = DeckGetEffectiveBpm(deck'[Other(activeDeck')])
      /\ ( /\ lastOp' = <<"tick">>
           /\ ~TickSkips(Cur)
           /\ phase = "mixing"
           /\ mixDuration > 0
           /\ phase' = "mixing" )
         => LET out == deck'[activeDeck]
                inc == deck'[Other(activeDeck)]
                slidingBpm == DeckGetNativeBpm(out)
                                + ((DeckGetNativeBpm(inc) - DeckGetNativeBpm(out)) * MixQuarter)
                                    \div 4
            IN /\ DeckGetEffectiveBpm(out) = slidingBpm
               /\ DeckGetEffectiveBpm(inc) = slidingBpm
               /\ out.playbackRate * DeckGetNativeBpm(out) = 2 * slidingBpm
               /\ inc.playbackRate * DeckGetNativeBpm(inc) = 2 * slidingBpm ]_vars

\* C40: no queue item occurs twice in the pending list, and the item in the
\* active slot is not also in the pending list.
C40_NoDuplicateItems ==
  /\ \A i \in 1..Len(queue), j \in 1..Len(queue) :
       queue[i].id = queue[j].id => i = j
  /\ activeItem # NoItem =>
       \A i \in 1..Len(queue) : queue[i].id # activeItem.id

\* a second immediate request had put the interrupted item back in front of
\* the pending list and its own item had reached the active slot; a rewind
\* has just taken that item out of the slot and is preparing it again
C40_Witness ==
  /\ lastOp = <<"rewind">>
  /\ activeItem = NoItem
  /\ queue # <<>>
  /\ \E l \in PrepareLoads(loads) : l.cont = "none" /\ l.item.id > queue[1].id
  /\ phase = "playing"

====
